---- MODULE Spec2Model ----
(***************************************************************************)
(* Model of src/main.c: a dimmer for three PWM LEDs driven by a rotary     *)
(* encoder.  The GPIO interrupt callback (gpio_callback) turns button and  *)
(* encoder edges into events and adds them to a bounded queue; the main    *)
(* loop removes the events one by one and updates the lighting state.      *)
(*                                                                         *)
(* 32-bit millisecond values are kept as pairs <<hi, lo>> of 16-bit limbs  *)
(* and the boot clock as a triple <<top, hi, lo>>, so that the unsigned    *)
(* subtraction of the debounce check wraps exactly as in C.                *)
(***************************************************************************)
EXTENDS Integers, Sequences, FiniteSets, TLC

VARIABLES
    events,      \* static queue_t events: the queued event_t values, oldest first
    event,       \* main(): event_t event, the element last removed from the queue
    lightsOn,    \* main(): static bool lightsOn
    brightness,  \* main(): uint brightness
    duty,        \* PWM compare level of each LED channel, indexed like leds[]
    last_ms,     \* gpio_callback(): static uint32_t last_ms
    time,        \* milliseconds since boot (the clock behind get_absolute_time)
    ticks,       \* history: number of clock advances so far
    before,      \* history: lightsOn, brightness and duty before the last handled event
    isr,         \* history: what the most recent gpio_callback call did
    accepts      \* history: boot times <<previous, last>> of the last two accepted
                 \* button edges, NoTime where there is none

vars == <<events, event, lightsOn, brightness, duty, last_ms, time, ticks,
          before, isr, accepts>>

-----------------------------------------------------------------------------
(* Program constants *)

TOP == 999
ROT_A == 10
ROT_B == 11
ROT_SW == 12
DEBOUNCE_MS == 20
LED_R == 22
LED_M == 21
LED_L == 20
LEDS_SIZE == 3
BR_RATE == 50
MAX_BR == TOP + 1
BR_MID == MAX_BR \div 2
QUEUE_SIZE == 32

leds == <<LED_R, LED_M, LED_L>>
rots == <<ROT_A, ROT_B, ROT_SW>>

EVENT_BUTTON == "EVENT_BUTTON"
EVENT_ENCODER == "EVENT_ENCODER"
GPIO_IRQ_EDGE_FALL == "EDGE_FALL"
GPIO_IRQ_EDGE_RISE == "EDGE_RISE"

event_t(t, d) == [type |-> t, data |-> d]
Press == event_t(EVENT_BUTTON, 1)
Release == event_t(EVENT_BUTTON, 0)
StepCW == event_t(EVENT_ENCODER, 1)
StepCCW == event_t(EVENT_ENCODER, -1)

\* The local `event` of main() before the first successful queue_try_remove:
\* it is written by queue_try_remove before main() ever reads it.
NoEvent == event_t("unset", 0)

-----------------------------------------------------------------------------
(* Bounds of the model *)

\* Clock advances explored.
MaxTicks == 2
\* Queue depth below which interrupts of every kind are delivered; deeper in
\* the queue the burst continues with clockwise encoder edges only.
MaxMixed == 1

-----------------------------------------------------------------------------
(* Unsigned arithmetic on 16-bit limbs *)

W16 == 65536

\* (a - b) mod 2^32 for a, b given as <<hi, lo>>
sub32(a, b) ==
    LET lo == a[2] - b[2]
        borrow == IF lo < 0 THEN 1 ELSE 0
    IN  <<(a[1] - b[1] - borrow) % W16, lo % W16>>

\* a >= n for a 32-bit a = <<hi, lo>> and a small n
geq32(a, n) == a[1] > 0 \/ a[2] >= n

\* a + d for the boot clock a = <<top, hi, lo>> and a duration d = <<hi, lo>>
add48(a, d) ==
    LET lo == a[3] + d[2]
        c1 == lo \div W16
        hi == a[2] + d[1] + c1
        c2 == hi \div W16
    IN  <<a[1] + c2, hi % W16, lo % W16>>

\* a - b for boot-clock values a >= b
sub48(a, b) ==
    LET lo == a[3] - b[3]
        b1 == IF lo < 0 THEN 1 ELSE 0
        hi == a[2] - b[2] - b1
        b2 == IF hi < 0 THEN 1 ELSE 0
    IN  <<a[1] - b[1] - b2, hi % W16, lo % W16>>

NoTime == <<-1, 0, 0>>

\* Durations by which the clock advances: just under the debounce window, exactly
\* the debounce window, and 2^32 - 20 ms, which takes the 32-bit counter around.
TickSteps == {<<0, DEBOUNCE_MS - 1>>, <<0, DEBOUNCE_MS>>, <<W16 - 1, W16 - DEBOUNCE_MS>>}

\* to_ms_since_boot(get_absolute_time()): the boot clock truncated to uint32_t
to_ms_since_boot(t) == <<t[2], t[3]>>

-----------------------------------------------------------------------------
(* Pure functions of main.c *)

\* clamp with the upper bound TOP in place of MAX_BR
clamp_to_top(br) ==
    IF br < 0 THEN 0
    ELSE IF br > TOP THEN TOP
    ELSE br

\* uint clamp(const int br)
clamp(br) ==
    IF br < 0 THEN 0
    ELSE IF br > MAX_BR THEN MAX_BR
    ELSE br

\* set_brightness whose loop stops one channel short
set_brightness_short(d, b) ==
    [i \in 1..LEDS_SIZE |-> IF i < LEDS_SIZE THEN b % W16 ELSE d[i]]

\* void set_brightness(leds, brightness): the level of every channel after the loop
set_brightness(d, b) == [i \in 1..LEDS_SIZE |-> b % W16]

\* light_switch that forgets to clear the channel levels when switching off
light_switch_no_clear(d, b, on) ==
    IF on THEN [duty |-> set_brightness(d, b), ret |-> TRUE]
    ELSE [duty |-> d, ret |-> FALSE]

\* bool light_switch(leds, brightness, on): the channel levels and the return value
light_switch(d, b, on) ==
    IF on THEN [duty |-> set_brightness(d, b), ret |-> TRUE]
    ELSE [duty |-> set_brightness(d, 0), ret |-> FALSE]

Lighting(on, br, d) == [lightsOn |-> on, brightness |-> br, duty |-> d]

\* Button branch without the brightness == 0 case: a press while on always switches off
HandleButton_always_toggle(e, L) ==
    IF e.type = EVENT_BUTTON /\ e.data = 1
    THEN LET r == light_switch(L.duty, IF L.lightsOn THEN 0 ELSE L.brightness, ~L.lightsOn)
         IN  Lighting(r.ret, L.brightness, r.duty)
    ELSE L

\* Button branch that does not test event.data: a release acts like a press
HandleButton_any_edge(e, L) ==
    IF e.type = EVENT_BUTTON
    THEN IF ~L.lightsOn
         THEN LET r == light_switch(L.duty, L.brightness, TRUE)
              IN  Lighting(r.ret, L.brightness, r.duty)
         ELSE IF L.brightness <= 0
              THEN Lighting(L.lightsOn, BR_MID, set_brightness(L.duty, BR_MID))
              ELSE LET r == light_switch(L.duty, 0, FALSE)
                   IN  Lighting(r.ret, L.brightness, r.duty)
    ELSE L

\* Button branch that restores the brightness at 0 without programming the channels
HandleButton_mid_not_pushed(e, L) ==
    IF e.type = EVENT_BUTTON /\ e.data = 1
    THEN IF ~L.lightsOn
         THEN LET r == light_switch(L.duty, L.brightness, TRUE)
              IN  Lighting(r.ret, L.brightness, r.duty)
         ELSE IF L.brightness <= 0
              THEN Lighting(L.lightsOn, BR_MID, L.duty)
              ELSE LET r == light_switch(L.duty, 0, FALSE)
                   IN  Lighting(r.ret, L.brightness, r.duty)
    ELSE L

\* Button branch that leaves the lights as they are when the brightness is 0
HandleButton_zero_stuck(e, L) ==
    IF e.type = EVENT_BUTTON /\ e.data = 1
    THEN IF ~L.lightsOn
         THEN LET r == light_switch(L.duty, L.brightness, TRUE)
              IN  Lighting(r.ret, L.brightness, r.duty)
         ELSE IF L.brightness <= 0
              THEN L
              ELSE LET r == light_switch(L.duty, 0, FALSE)
                   IN  Lighting(r.ret, L.brightness, r.duty)
    ELSE L

\* main(), lines 67-83: the button branch of the loop body
HandleButton(e, L) ==
    IF e.type = EVENT_BUTTON /\ e.data = 1
    THEN IF ~L.lightsOn
         THEN LET r == light_switch(L.duty, L.brightness, TRUE)
              IN  Lighting(r.ret, L.brightness, r.duty)
         ELSE IF L.brightness <= 0
              THEN Lighting(L.lightsOn, BR_MID, set_brightness(L.duty, BR_MID))
              ELSE LET r == light_switch(L.duty, 0, FALSE)
                   IN  Lighting(r.ret, L.brightness, r.duty)
    ELSE L

\* Encoder branch that does not test lightsOn
HandleEncoder_while_off(e, L) ==
    IF e.type = EVENT_ENCODER
    THEN LET br == clamp(L.brightness + e.data * BR_RATE)
         IN  Lighting(L.lightsOn, br, set_brightness(L.duty, br))
    ELSE L

\* Encoder branch in which turning the knob while off switches the lights on
HandleEncoder_wakes(e, L) ==
    IF e.type = EVENT_ENCODER
    THEN LET br == IF L.lightsOn THEN clamp(L.brightness + e.data * BR_RATE)
                   ELSE L.brightness
         IN  Lighting(TRUE, br, set_brightness(L.duty, br))
    ELSE L

\* main(), lines 85-90: the encoder branch of the loop body
HandleEncoder(e, L) ==
    IF e.type = EVENT_ENCODER /\ L.lightsOn
    THEN LET br == clamp(L.brightness + e.data * BR_RATE)
         IN  Lighting(L.lightsOn, br, set_brightness(L.duty, br))
    ELSE L

\* main(), lines 64-91: one pass of the inner loop body on the removed event
HandleEvent(e, L) == HandleEncoder(e, HandleButton(e, L))

-----------------------------------------------------------------------------
(* The queue (pico/util/queue.h) as main.c uses it *)

\* A queue that grows without a capacity check
queue_try_add_unbounded(q, e) == Append(q, e)

\* queue_try_add(&events, &event): the queue afterwards
queue_try_add(q, e) == IF Len(q) >= QUEUE_SIZE THEN q ELSE Append(q, e)

\* A queue that hands out its newest element first
queue_try_remove_newest(q) == [elem |-> q[Len(q)], rest |-> SubSeq(q, 1, Len(q) - 1)]

\* queue_try_remove(&events, &event): the element returned and the queue afterwards
queue_try_remove(q) == [elem |-> Head(q), rest |-> Tail(q)]

RECURSIVE AddAll(_, _)
AddAll(q, es) == IF es = <<>> THEN q ELSE AddAll(queue_try_add(q, Head(es)), Tail(es))

-----------------------------------------------------------------------------
(* The interrupt callback *)

\* Debounce test written as now >= last_ms + DEBOUNCE_MS, which does not wrap
Debounced_no_wrap(now, last) ==
    LET lo == last[2] + DEBOUNCE_MS
        hi == last[1] + (lo \div W16)
    IN  now[1] > hi \/ (now[1] = hi /\ now[2] >= lo % W16)

\* gpio_callback, lines 104 and 111: now - last_ms >= DEBOUNCE_MS
Debounced(now, last) == geq32(sub32(now, last), DEBOUNCE_MS)

\* Button decoding in which the falling-edge check reads last_ms as it was on entry
ButtonEdges_stale_last(gpio, mask, now, last) ==
    IF gpio = ROT_SW
    THEN LET rise == GPIO_IRQ_EDGE_RISE \in mask /\ Debounced(now, last)
             fall == GPIO_IRQ_EDGE_FALL \in mask /\ Debounced(now, last)
         IN  [offered |-> (IF rise THEN <<Release>> ELSE <<>>)
                          \o (IF fall THEN <<Press>> ELSE <<>>),
              last_ms |-> IF rise \/ fall THEN now ELSE last]
    ELSE [offered |-> <<>>, last_ms |-> last]

\* gpio_callback, lines 99-116: the button events offered to the queue and last_ms
ButtonEdges(gpio, mask, now, last) ==
    IF gpio = ROT_SW
    THEN LET rise == GPIO_IRQ_EDGE_RISE \in mask /\ Debounced(now, last)
             last1 == IF rise THEN now ELSE last
             fall == GPIO_IRQ_EDGE_FALL \in mask /\ Debounced(now, last1)
         IN  [offered |-> (IF rise THEN <<Release>> ELSE <<>>)
                          \o (IF fall THEN <<Press>> ELSE <<>>),
              last_ms |-> IF fall THEN now ELSE last1]
    ELSE [offered |-> <<>>, last_ms |-> last]

\* Encoder decoding with the direction swapped
EncoderEdge_swapped(gpio, mask, rot_b_state) ==
    IF gpio = ROT_A /\ GPIO_IRQ_EDGE_RISE \in mask
    THEN <<event_t(EVENT_ENCODER, IF rot_b_state THEN 1 ELSE -1)>>
    ELSE <<>>

\* gpio_callback, lines 119-123: the encoder event offered to the queue
EncoderEdge(gpio, mask, rot_b_state) ==
    IF gpio = ROT_A /\ GPIO_IRQ_EDGE_RISE \in mask
    THEN <<event_t(EVENT_ENCODER, IF rot_b_state THEN -1 ELSE 1)>>
    ELSE <<>>

\* ini_rot, lines 145-151: the pins and edges whose interrupt is enabled
IrqInputs ==
    {<<ROT_SW, {GPIO_IRQ_EDGE_FALL}>>, <<ROT_SW, {GPIO_IRQ_EDGE_RISE}>>,
     <<ROT_SW, {GPIO_IRQ_EDGE_FALL, GPIO_IRQ_EDGE_RISE}>>,
     <<ROT_A, {GPIO_IRQ_EDGE_RISE}>>, <<ROT_B, {GPIO_IRQ_EDGE_RISE}>>}

\* Delivery of interrupts: every kind while the queue is shallow or full, a
\* burst of clockwise encoder edges in between.
Delivered(gpio, mask, rot_b_state) ==
    \/ Len(events) < MaxMixed
    \/ Len(events) >= QUEUE_SIZE
    \/ gpio = ROT_A /\ ~rot_b_state

\* History of accepted button edges: n more edges accepted at boot time t
RECURSIVE RecordAccepts(_, _, _)
RecordAccepts(acc, n, t) ==
    IF n = 0 THEN acc ELSE RecordAccepts(<<acc[2], t>>, n - 1, t)

\* History value before the first interrupt
NoCall == [gpio |-> 0, mask |-> {}, offered |-> <<>>, added |-> 0]

\* Callback that applies an encoder step to the brightness itself
gpio_callback_dims(gpio, mask, rot_b_state) ==
    LET now == to_ms_since_boot(time)
        btn == ButtonEdges(gpio, mask, now, last_ms)
        enc == EncoderEdge(gpio, mask, rot_b_state)
        offered == btn.offered \o enc
        q == AddAll(events, offered)
        br == IF enc # <<>> /\ lightsOn
              THEN clamp(brightness + enc[1].data * BR_RATE) ELSE brightness
    IN  /\ events' = q
        /\ last_ms' = btn.last_ms
        /\ brightness' = br
        /\ duty' = IF br # brightness THEN set_brightness(duty, br) ELSE duty
        /\ isr' = [gpio |-> gpio, mask |-> mask, offered |-> offered,
                   added |-> Len(q) - Len(events)]
        /\ accepts' = RecordAccepts(accepts, Len(btn.offered), time)
        /\ UNCHANGED <<event, lightsOn, time, ticks, before>>

\* Callback that writes last_ms only when queue_try_add took the event
gpio_callback_stamp_on_delivery(gpio, mask, rot_b_state) ==
    LET now == to_ms_since_boot(time)
        btn == ButtonEdges(gpio, mask, now, last_ms)
        offered == btn.offered \o EncoderEdge(gpio, mask, rot_b_state)
        q == AddAll(events, offered)
    IN  /\ events' = q
        /\ last_ms' = IF Len(q) > Len(events) THEN btn.last_ms ELSE last_ms
        /\ isr' = [gpio |-> gpio, mask |-> mask, offered |-> offered,
                   added |-> Len(q) - Len(events)]
        /\ accepts' = RecordAccepts(accepts, Len(btn.offered), time)
        /\ UNCHANGED <<event, lightsOn, brightness, duty, time, ticks, before>>

\* void gpio_callback(uint gpio, uint32_t event_mask)
gpio_callback(gpio, mask, rot_b_state) ==
    LET now == to_ms_since_boot(time)
        btn == ButtonEdges(gpio, mask, now, last_ms)
        offered == btn.offered \o EncoderEdge(gpio, mask, rot_b_state)
        q == AddAll(events, offered)
    IN  /\ events' = q
        /\ last_ms' = btn.last_ms
        /\ isr' = [gpio |-> gpio, mask |-> mask, offered |-> offered,
                   added |-> Len(q) - Len(events)]
        /\ accepts' = RecordAccepts(accepts, Len(btn.offered), time)
        /\ UNCHANGED <<event, lightsOn, brightness, duty, time, ticks, before>>

Interrupt ==
    \E in \in IrqInputs, rot_b_state \in BOOLEAN :
        /\ Delivered(in[1], in[2], rot_b_state)
        /\ gpio_callback(in[1], in[2], rot_b_state)

-----------------------------------------------------------------------------
(* The main loop *)

\* Inner loop that polls the queue only while the lights are on
HandleNext_only_while_on ==
    /\ lightsOn
    /\ events # <<>>
    /\ LET r == queue_try_remove(events)
           L == HandleEvent(r.elem, Lighting(lightsOn, brightness, duty))
       IN  /\ events' = r.rest
           /\ event' = r.elem
           /\ lightsOn' = L.lightsOn
           /\ brightness' = L.brightness
           /\ duty' = L.duty
           /\ before' = Lighting(lightsOn, brightness, duty)
    /\ UNCHANGED <<last_ms, time, ticks, isr, accepts>>

\* Lines 64-91: queue_try_remove succeeds and the loop body handles the event
HandleNext ==
    /\ events # <<>>
    /\ LET r == queue_try_remove(events)
           L == HandleEvent(r.elem, Lighting(lightsOn, brightness, duty))
       IN  /\ events' = r.rest
           /\ event' = r.elem
           /\ lightsOn' = L.lightsOn
           /\ brightness' = L.brightness
           /\ duty' = L.duty
           /\ before' = Lighting(lightsOn, brightness, duty)
    /\ UNCHANGED <<last_ms, time, ticks, isr, accepts>>

\* Lines 64 and 93: queue_try_remove finds the queue empty, the inner loop ends
\* and sleep_ms(10) returns; no variable of the program is written
Sleep ==
    /\ events = <<>>
    /\ UNCHANGED vars

\* The clock advances
Tick(d) ==
    /\ ticks < MaxTicks
    /\ time' = add48(time, d)
    /\ ticks' = ticks + 1
    /\ UNCHANGED <<events, event, lightsOn, brightness, duty, last_ms,
                   before, isr, accepts>>

Advance == \E d \in TickSteps : Tick(d)

-----------------------------------------------------------------------------
(* Lines 50-58: the state when main() enters its loop *)
Init ==
    /\ events = <<>>
    /\ event = NoEvent
    /\ lightsOn = FALSE
    /\ brightness = BR_MID
    /\ duty = [i \in 1..LEDS_SIZE |-> 0]
    /\ last_ms = <<0, 0>>
    /\ time = <<0, 0, 0>>
    /\ ticks = 0
    /\ before = Lighting(FALSE, BR_MID, [i \in 1..LEDS_SIZE |-> 0])
    /\ isr = NoCall
    /\ accepts = <<NoTime, NoTime>>

Next == Interrupt \/ HandleNext \/ Sleep \/ Advance

Spec == Init /\ [][Next]_vars

\* Interrupts as explored under fairness: every kind while the queue is empty
\* or full, a burst of clockwise encoder edges in between
InterruptBurst ==
    \E in \in IrqInputs, rot_b_state \in BOOLEAN :
        /\ \/ events = <<>>
           \/ Len(events) >= QUEUE_SIZE
           \/ in[1] = ROT_A /\ ~rot_b_state
        /\ gpio_callback(in[1], in[2], rot_b_state)

\* The clock as explored under fairness: it advances by the debounce window
AdvanceWindow == Tick(<<0, DEBOUNCE_MS>>)

NextFair == InterruptBurst \/ HandleNext \/ Sleep \/ AdvanceWindow

\* The main loop keeps running: sleep_ms(10) returns and queue_try_remove is
\* called again, so a queue that stays non-empty is eventually polled
SpecFair == Init /\ [][NextFair]_vars /\ WF_vars(HandleNext)

-----------------------------------------------------------------------------
(* Properties *)

Min(a, b) == IF a < b THEN a ELSE b
Max(a, b) == IF a > b THEN a ELSE b

AllDuty(v) == \A i \in 1..LEDS_SIZE : duty[i] = v
NowLighting == Lighting(lightsOn, brightness, duty)

\* a >= n for a boot-clock difference a = <<top, hi, lo>> and a small n
geq48(a, n) == a[1] > 0 \/ a[2] > 0 \/ a[3] >= n

\* C1: in every reachable state the brightness lies in [0, TOP], TOP = 999.
C1_BrightnessWithinTop == brightness >= 0 /\ brightness <= TOP

\* C2: an encoder event with step s handled while the lights are on sets the
\* brightness to min(max(b + 50*s, 0), TOP) for the previous brightness b and
\* writes that value to all three channels.
C2_EncoderStepClampsToTop ==
    (event.type = EVENT_ENCODER /\ before.lightsOn) =>
        /\ brightness = Min(Max(before.brightness + BR_RATE * event.data, 0), TOP)
        /\ AllDuty(brightness)

\* C3: a press handled while off switches on with the brightness unchanged and
\* the duty equal to it; a press handled while on with brightness > 0 switches
\* off with duty 0 and the brightness unchanged.
C3_PressToggles ==
    event = Press =>
        /\ ~before.lightsOn =>
              lightsOn /\ brightness = before.brightness /\ AllDuty(brightness)
        /\ (before.lightsOn /\ before.brightness > 0) =>
              ~lightsOn /\ brightness = before.brightness /\ AllDuty(0)

\* The lights were switched on, dimmed up one step and switched off again.
C3_Witness ==
    /\ event = Press
    /\ before.lightsOn /\ before.brightness = BR_MID + BR_RATE
    /\ ~lightsOn /\ brightness = BR_MID + BR_RATE /\ AllDuty(0)

\* C4: a press handled while on with brightness 0 leaves the lights on and sets
\* the brightness and the duty of every channel to the mid value.
C4_PressAtZeroRestoresMid ==
    (event = Press /\ before.lightsOn /\ before.brightness = 0) =>
        lightsOn /\ brightness = BR_MID /\ AllDuty(BR_MID)

\* A press was handled with the lights on and dimmed down to 0.
C4_Witness ==
    /\ event = Press
    /\ before.lightsOn /\ before.brightness = 0 /\ before.duty[1] = 0
    /\ lightsOn

\* C5: an encoder event handled while the lights are off changes neither the
\* brightness, nor the On/Off flag, nor the duty of any channel.
C5_EncoderIgnoredWhileOff ==
    (event.type = EVENT_ENCODER /\ ~before.lightsOn) => NowLighting = before

\* An encoder step was handled after the lights were dimmed down and switched off.
C5_Witness ==
    /\ event = StepCW
    /\ ~before.lightsOn /\ before.brightness = BR_MID - BR_RATE
    /\ NowLighting = before

\* C6: the queue never holds more than 32 events, and a callback that runs
\* while it holds 32 leaves the queued events and their order unchanged.
C6_QueueBounded ==
    /\ [](Len(events) <= QUEUE_SIZE)
    /\ [][(/\ Len(events) = QUEUE_SIZE
           /\ \E in \in IrqInputs, b \in BOOLEAN : gpio_callback(in[1], in[2], b))
          => events' = events]_vars

\* A callback offered an event to the full queue and the event was dropped.
C6_Witness ==
    /\ Len(events) = QUEUE_SIZE
    /\ Len(isr.offered) = 1 /\ isr.added = 0
    /\ events[1] # events[QUEUE_SIZE]

\* C7: two accepted button edges are never less than 20 ms apart, also when a
\* rising and a falling edge are reported in one callback.
C7_DebounceWindow ==
    (accepts[1] # NoTime) => geq48(sub48(accepts[2], accepts[1]), DEBOUNCE_MS)

\* A callback reporting both edges of the button accepted one of them, less
\* than 20 ms being impossible between the two.
C7_Witness ==
    /\ isr.gpio = ROT_SW
    /\ isr.mask = {GPIO_IRQ_EDGE_FALL, GPIO_IRQ_EDGE_RISE}
    /\ Len(isr.offered) = 1
    /\ accepts[1] # NoTime /\ accepts[2] = time

\* C8: every step either handles exactly the oldest queued event and removes
\* it, or leaves the queued events as they are, or appends the one event the
\* callback added; nothing is handled that was not removed from the head.
C8_FifoExactlyOnce ==
    [][\/ /\ events # <<>>
          /\ events' = Tail(events)
          /\ event' = Head(events)
          /\ before' = NowLighting
       \/ /\ events' = events
          /\ UNCHANGED <<event, before, lightsOn, brightness, duty>>
       \/ /\ isr'.added = 1
          /\ events' = Append(events, isr'.offered[1])
          /\ UNCHANGED <<event, before, lightsOn, brightness, duty>>]_vars

\* A press was handled while a different event queued behind it is still waiting.
C8_Witness ==
    /\ event = Press
    /\ Len(events) >= 2
    /\ events[1] = StepCW
    /\ lightsOn # before.lightsOn

\* C9: the On/Off flag changes only in a step of the main loop that removes a
\* button-press event from the head of the queue.
C9_OnOffOnlyByPress ==
    [][lightsOn' # lightsOn =>
          /\ events # <<>>
          /\ Head(events) = Press
          /\ events' = Tail(events)
          /\ event' = Press]_vars

\* The flag was changed by a press, and an encoder interrupt has run since.
C9_Witness ==
    /\ event = Press
    /\ lightsOn /\ ~before.lightsOn
    /\ isr.gpio = ROT_A /\ isr.added = 1

\* C10: handling a button-release event leaves the On/Off flag, the brightness
\* and every duty unchanged.
C10_ReleaseIsNoOp ==
    event = Release => NowLighting = before

\* A release enqueued by the callback was handled while the lights were on.
C10_Witness ==
    /\ event = Release
    /\ lightsOn /\ brightness > 0 /\ AllDuty(brightness)
    /\ NowLighting = before

\* C11: the three LED channels always carry the same duty value.
C11_ChannelsEqual ==
    \A i, j \in 1..LEDS_SIZE : duty[i] = duty[j]

\* The channels were reprogrammed together to a level other than 0 and the mid value.
C11_Witness ==
    /\ event = StepCCW
    /\ lightsOn
    /\ \A i \in 1..LEDS_SIZE : duty[i] = BR_MID - 2 * BR_RATE

\* C16: between handled events the duty of every channel equals the brightness
\* when the lights are on and 0 when they are off; before the first event the
\* lights are off with the brightness at its mid value.
C16_DutyFollowsState ==
    /\ AllDuty(IF lightsOn THEN brightness ELSE 0)
    /\ event = NoEvent => (~lightsOn /\ brightness = BR_MID)

\* The lights are on and were dimmed all the way down to 0.
C16_Witness ==
    /\ lightsOn /\ brightness = 0 /\ AllDuty(0)
    /\ event = StepCCW /\ before.brightness = BR_RATE

\* C17: from every reachable lighting state one or two consecutive presses
\* switch the lights off, and a press handled while on leaves them on only
\* when the brightness was 0.
C17_TwoPressesSwitchOff ==
    LET L1 == HandleEvent(Press, NowLighting)
        L2 == HandleEvent(Press, L1)
    IN  /\ ~L1.lightsOn \/ ~L2.lightsOn
        /\ (lightsOn /\ L1.lightsOn) => brightness = 0
        /\ (event = Press /\ before.lightsOn /\ lightsOn) => before.brightness = 0

\* A press handled while on at the mid value switched the lights off.
C17_Witness ==
    /\ event = Press
    /\ before.lightsOn /\ before.brightness = BR_MID
    /\ ~lightsOn /\ brightness = BR_MID

IsEncoder(e) == e.type = EVENT_ENCODER
IsButton(e) == e.type = EVENT_BUTTON

\* This step is the callback run for pin in[1] with event mask in[2] while
\* channel B reads b.  The first two lines follow from the third: the callback
\* leaves the clock alone, never shortens the queue and records pin and mask.
CallbackOf(in, b) ==
    /\ time' = time /\ Len(events') >= Len(events)
    /\ isr'.gpio = in[1] /\ isr'.mask = in[2]
    /\ gpio_callback(in[1], in[2], b)

\* Some callback runs in this step
CallbackStep == \E in \in IrqInputs, b \in BOOLEAN : CallbackOf(in, b)

\* At least 20 ms have passed since the last accepted button edge, or none was accepted
Eligible ==
    accepts[2] = NoTime \/ geq48(sub48(time, accepts[2]), DEBOUNCE_MS)

\* C13: the lighting state is written only by a step of the main loop that
\* removes the head of the queue, and such a step never writes last_ms; last_ms
\* is written only by a callback for the button pin, which writes neither the
\* lighting state nor the main loop's event.
C13_OwnState ==
    [][/\ <<lightsOn, brightness, duty>>' # <<lightsOn, brightness, duty>> =>
             /\ events # <<>>
             /\ events' = Tail(events)
             /\ event' = Head(events)
             /\ last_ms' = last_ms
       /\ last_ms' # last_ms =>
             /\ UNCHANGED <<lightsOn, brightness, duty, event, before>>
             /\ isr'.gpio = ROT_SW
             /\ Len(events') >= Len(events)]_vars

\* Both contexts have written their own state: the callback last_ms, the main
\* loop the brightness.
C13_Witness ==
    /\ last_ms # <<0, 0>>
    /\ isr.gpio = ROT_SW
    /\ IsEncoder(event) /\ lightsOn /\ brightness # before.brightness

\* C14: a callback for a single button edge that runs with at least 20 ms
\* passed since the last accepted button edge, or with none accepted yet, and
\* with room in the queue appends exactly one event: a press for a falling
\* edge, a release for a rising edge.
C14_EligibleEdgeEnqueued ==
    [][\A m \in {{GPIO_IRQ_EDGE_FALL}, {GPIO_IRQ_EDGE_RISE}} :
          (/\ gpio_callback(ROT_SW, m, TRUE)
           /\ Eligible
           /\ Len(events) < QUEUE_SIZE)
          => events' = Append(events, IF m = {GPIO_IRQ_EDGE_FALL} THEN Press ELSE Release)]_vars

\* C15: a callback offers an encoder event exactly for a rising edge on channel
\* A, with data -1 when channel B reads high and +1 when it reads low, at any
\* time since the previous event; no handled encoder event carries another value.
\* (A step that keeps the clock and does not shorten the queue is a callback
\* run, and isr' holds its pin, its mask and what it offered.)
C15_EncoderDecoding ==
    /\ [](IsEncoder(event) => event.data \in {-1, 1})
    /\ [][(time' = time /\ Len(events') >= Len(events)) =>
             LET enc == SelectSeq(isr'.offered, IsEncoder)
             IN  IF isr'.gpio = ROT_A /\ GPIO_IRQ_EDGE_RISE \in isr'.mask
                 THEN \A b \in BOOLEAN :
                         gpio_callback(ROT_A, isr'.mask, b) =>
                            /\ enc = <<event_t(EVENT_ENCODER, IF b THEN -1 ELSE 1)>>
                            /\ Len(events) < QUEUE_SIZE => events' = Append(events, enc[1])
                 ELSE enc = <<>>]_vars

\* Two encoder events of opposite direction were queued with no time between them.
C15_Witness ==
    /\ ticks = 0
    /\ events = <<StepCCW, StepCW>>
    /\ isr.gpio = ROT_A /\ isr.offered = <<StepCW>> /\ isr.added = 1

\* C19 as claimed: a callback that runs while the queue is full leaves last_ms unchanged.
C19_StampOnlyWhenDelivered ==
    [][(Len(events) = QUEUE_SIZE /\ CallbackStep) => last_ms' = last_ms]_vars

\* C19 as amended: last_ms records every button edge that passes the 20 ms
\* check, whether or not its event was delivered; with the queue full the
\* event is dropped and last_ms is still set to the time of the edge.
C19_StampOnAccept ==
    [][CallbackStep =>
          /\ last_ms' = IF \E i \in 1..Len(isr'.offered) : IsButton(isr'.offered[i])
                        THEN to_ms_since_boot(time) ELSE last_ms
          /\ Len(events) = QUEUE_SIZE => events' = events]_vars

\* A button edge passed the check with the queue full: its event was dropped
\* and last_ms holds its time.
C19_Witness ==
    /\ Len(events) = QUEUE_SIZE
    /\ isr.gpio = ROT_SW /\ Len(isr.offered) = 1 /\ isr.added = 0
    /\ last_ms = to_ms_since_boot(time) /\ accepts[2] = time

\* C20: now - last_ms, computed modulo 2^32, is the time passed since the last
\* accepted button edge modulo 2^32, so that a button edge at least 20 ms and
\* less than 2^32 ms after it passes the debounce check.
C20_WrapSafe ==
    accepts[2] # NoTime =>
        LET el == sub48(time, accepts[2])
            now == to_ms_since_boot(time)
        IN  /\ sub32(now, last_ms) = <<el[2], el[3]>>
            /\ (el[1] = 0 /\ geq48(el, DEBOUNCE_MS)) => Debounced(now, last_ms)

\* A button edge was accepted after the counter wrapped: its 32-bit time is
\* below that of the edge accepted before it.
C20_Witness ==
    /\ accepts[1] # NoTime
    /\ accepts[2][1] = accepts[1][1] + 1
    /\ accepts[2][2] < accepts[1][2] \/ (accepts[2][2] = accepts[1][2] /\ accepts[2][3] < accepts[1][3])
    /\ isr.gpio = ROT_SW /\ isr.added = 1 /\ last_ms = to_ms_since_boot(time)

\* C12: a callback can run to completion in every state, full queue or not;
\* the main loop's removal always returns, with an event or without; and with
\* the main loop running, events keep being removed and handled for as long as
\* any is queued, so that (the queue being FIFO) every queued event is
\* eventually handled; an event at the head eventually is the one in `event`.
C12_NonBlocking ==
    /\ [](\A in \in IrqInputs, b \in BOOLEAN : ENABLED gpio_callback(in[1], in[2], b))
    /\ [](IF events = <<>> THEN ENABLED Sleep ELSE ENABLED HandleNext)
    /\ ([]<><<HandleNext>>_vars \/ <>[](events = <<>>))
    /\ (Len(events) = QUEUE_SIZE) ~> (Len(events) < QUEUE_SIZE)
    /\ \A e \in {Press, Release, StepCW, StepCCW} :
          (events # <<>> /\ Head(events) = e) ~> (event = e)

\* The queue was full when the main loop took an event from it.
C12_Witness ==
    /\ Len(events) = QUEUE_SIZE - 1
    /\ event = Press /\ lightsOn
    /\ Len(isr.offered) = 1 /\ isr.added = 0

====
